---------------------------- MODULE Spec2Model ----------------------------
(***************************************************************************)
(* FastICA (deflationary fixed-point ICA): a model of                      *)
(*   decomposition/fastICA.py   calculate_new_w, ica                       *)
(*   metrics/manhattan.py       compute_distance                           *)
(*                                                                         *)
(* Numbers are exact rationals <<p, q>> (q > 0, lowest terms); a vector is *)
(* a sequence of rationals and a matrix a sequence of rows.  The inputs    *)
(* are drawn from sets on which every square root the code takes is a      *)
(* rational, so that normalisation, deflation and the distances are        *)
(* computed exactly as the code computes them.                             *)
(*                                                                         *)
(* The values g, g' of the contrast function (contrast_function package,   *)
(* a transcendental function for "exp") are inputs of each update, drawn   *)
(* from a small set; which strategy was asked for is recorded.             *)
(***************************************************************************)
EXTENDS Integers, Sequences, FiniteSets, TLC

VARIABLES run, twin, mx, my, md, mdprev, mop

vars == <<run, twin, mx, my, md, mdprev, mop>>

---------------------------------------------------------------------------
(* Bounds of the model *)

\* largest number of mixtures N (rows of X)
MaxN == 3
\* largest max_iter the caller passes
MaxIter == 2
\* largest length of the vectors handed to compute_distance on its own
MaxLen == 2

---------------------------------------------------------------------------
(* Exact rational arithmetic (numpy float arithmetic, without rounding).   *)
(* The operations are functions: their arguments are values.               *)

Abs(n) == IF n < 0 THEN -n ELSE n

GCD[a \in Nat, b \in Nat] == IF b = 0 THEN a ELSE GCD[b, a % b]

\* p/q in lowest terms with a positive denominator
Rat[p \in Int, q \in Int] ==
    IF q < 0 THEN <<-(p \div GCD[Abs(p), Abs(q)]), -(q \div GCD[Abs(p), Abs(q)])>>
    ELSE <<p \div GCD[Abs(p), Abs(q)], q \div GCD[Abs(p), Abs(q)]>>

Rational == Int \X Nat
Zero == <<0, 1>>
One == <<1, 1>>

\* the sum over the least common denominator
RAdd[a \in Rational, b \in Rational] ==
    Rat[a[1] * (b[2] \div GCD[a[2], b[2]]) + b[1] * (a[2] \div GCD[a[2], b[2]]),
        (a[2] \div GCD[a[2], b[2]]) * b[2]]

RNeg[a \in Rational] == <<-a[1], a[2]>>
RSub[a \in Rational, b \in Rational] == RAdd[a, RNeg[b]]

\* the product, reduced crosswise before it is multiplied out
RMul[a \in Rational, b \in Rational] ==
    Rat[(a[1] \div GCD[Abs(a[1]), b[2]]) * (b[1] \div GCD[Abs(b[1]), a[2]]),
        (a[2] \div GCD[Abs(b[1]), a[2]]) * (b[2] \div GCD[Abs(a[1]), b[2]])]

RInv[a \in Rational] == IF a[1] < 0 THEN <<-a[2], -a[1]>> ELSE <<a[2], a[1]>>
RDiv[a \in Rational, b \in Rational] == RMul[a, RInv[b]]
RAbs[a \in Rational] == <<Abs(a[1]), a[2]>>

\* a/b < c/d for b, d > 0, by the integer parts and then the remainders
FracLess[a \in Int, b \in Int, c \in Int, d \in Int] ==
    IF a \div b # c \div d THEN a \div b < c \div d
    ELSE IF c % d = 0 THEN FALSE
    ELSE IF a % b = 0 THEN TRUE
    ELSE FracLess[d, c % d, b, a % b]

RLess[a \in Rational, b \in Rational] == FracLess[a[1], a[2], b[1], b[2]]

\* s or s + 1, whichever is the floor of the square root of n
Nearest[s \in Nat, n \in Nat] == IF (s + 1) * (s + 1) <= n THEN s + 1 ELSE s

\* floor of the square root of a natural number
ISqrt[n \in Nat] == IF n < 2 THEN n ELSE Nearest[2 * ISqrt[n \div 4], n]

IsSquare[n \in Int] == n >= 0 /\ ISqrt[n] * ISqrt[n] = n

\* a rational whose square root is a rational
HasRSqrt[a \in Rational] == IsSquare[a[1]] /\ IsSquare[a[2]]
RSqrt[a \in Rational] == <<ISqrt[a[1]], ISqrt[a[2]]>>

Vector == Seq(Rational)
Matrix == Seq(Vector)

\* s[1] + ... + s[k]
SumTo[s \in Vector, k \in Nat] == IF k = 0 THEN Zero ELSE RAdd[SumTo[s, k - 1], s[k]]

RSum[s \in Vector] == SumTo[s, Len(s)]

RMean[s \in Vector] == RDiv[RSum[s], <<Len(s), 1>>]

(* Vectors and matrices *)

VSub[u \in Vector, v \in Vector] == [k \in 1..Len(u) |-> RSub[u[k], v[k]]]
VScale[c \in Rational, v \in Vector] == [k \in 1..Len(v) |-> RMul[c, v[k]]]
VNeg[v \in Vector] == [k \in 1..Len(v) |-> RNeg[v[k]]]
VAbs[v \in Vector] == [k \in 1..Len(v) |-> RAbs[v[k]]]
Dot[u \in Vector, v \in Vector] == RSum[[k \in 1..Len(u) |-> RMul[u[k], v[k]]]]
NormSq[v \in Vector] == Dot[v, v]
ZeroVec(n) == [k \in 1..n |-> Zero]
IsZeroVec[v \in Vector] == \A k \in 1..Len(v) : v[k] = Zero
Column[X \in Matrix, m \in Nat] == [k \in 1..Len(X) |-> X[k][m]]

\* np.dot(v, A) for a vector v and a matrix A given by its rows
VecMat[v \in Vector, A \in Matrix, cols \in Nat] ==
    [m \in 1..cols |-> Dot[v, Column[A, m]]]

\* np.dot(A, B)
MatMul[A \in Matrix, B \in Matrix] ==
    [k \in 1..Len(A) |-> VecMat[A[k], B, Len(B[1])]]

---------------------------------------------------------------------------
(* metrics/manhattan.py *)

\* the same sum with the elementwise absolute values left out
compute_distance_signed(x, y) ==
    RSum[[k \in 1..Len(x) |-> RAbs[RSub[x[k], y[k]]]]]

\* compute_distance(x, y): x1 = |x|, y1 = |y|, sum(|x1 - y1|)
compute_distance(x, y) ==
    LET x1 == VAbs[x]
        y1 == VAbs[y]
    IN  RSum[VAbs[VSub[x1, y1]]]

---------------------------------------------------------------------------
(* metrics/distance_metrics_factory: the strategies selectable by name *)

\* A distance is the real number rat - sqrt(root), or nan (0/0).
Real(r) == [nan |-> FALSE, rat |-> r, root |-> Zero]
NaN == [nan |-> TRUE, rat |-> Zero, root |-> Zero]

\* 1 - |cos(a, b)|; 0/0 when either vector is the zero vector
cosine_distance(a, b) ==
    IF IsZeroVec[a] \/ IsZeroVec[b] THEN NaN
    ELSE [nan |-> FALSE, rat |-> One,
          root |-> RDiv[RMul[Dot[a, b], Dot[a, b]], RMul[NormSq[a], NormSq[b]]]]

MetricNames == {"cosine", "manhattan"}

\* get_similarity_metric_fn(name) applied to (a, b)
Metric(name, a, b) ==
    IF name = "manhattan" THEN Real(compute_distance(a, b))
    ELSE cosine_distance(a, b)

\* dist < tolerance (a comparison with nan is False)
DistLess(d, tol) ==
    IF d.nan THEN FALSE
    ELSE LET e == RSub[d.rat, tol]
         IN  \/ RLess[e, Zero]
             \/ RLess[RMul[e, e], d.root]

---------------------------------------------------------------------------
(* preprocessing/whitening, on mixtures whose rows are uncorrelated: the   *)
(* covariance is diagonal, E = I, and E . L^(-1/2) . E^T scales each       *)
(* centred row by the inverse of its standard deviation.                   *)

Centre[row \in Vector] == [m \in 1..Len(row) |-> RSub[row[m], RMean[row]]]

Variance[row \in Vector] == RDiv[NormSq[Centre[row]], <<Len(row), 1>>]

whitening[X \in Matrix] ==
    [k \in 1..Len(X) |-> VScale[RDiv[One, RSqrt[Variance[X[k]]]], Centre[X[k]]]]

---------------------------------------------------------------------------
(* decomposition/fastICA.py: calculate_new_w *)

\* the name handed to contrast_function_factory.get_contrast_function
ContrastName == "exp"

\* np.dot(w.T, X), the argument of g and g'
Projection[w \in Vector, X \in Matrix] == VecMat[w, X, Len(X[1])]

\* w_new = (X * g).mean(axis=1) - g_der.mean() * w
FixedPoint[w \in Vector, X \in Matrix, g \in Vector, g_der \in Vector] ==
    VSub[[k \in 1..Len(X) |-> RMean[[m \in 1..Len(g) |-> RMul[X[k][m], g[m]]]]],
         VScale[RMean[g_der], w]]

\* sqrt((w_new ** 2).sum()) is a non-zero rational
CanNormalize[v \in Vector] == ~IsZeroVec[v] /\ HasRSqrt[NormSq[v]]

\* w_new /= np.sqrt((w_new ** 2).sum())
Normalize[v \in Vector] == VScale[RDiv[One, RSqrt[NormSq[v]]], v]

calculate_new_w(w, X, g, g_der) == Normalize[FixedPoint[w, X, g, g_der]]

---------------------------------------------------------------------------
(* decomposition/fastICA.py: ica, the Gram-Schmidt step of line 66 *)

\* np.dot(c, W[:i]): the sum of c[k] * W[k] over the first i rows
Combine[c \in Vector, W \in Matrix, i \in Nat] ==
    IF i = 0 THEN ZeroVec(Len(W))
    ELSE [k \in 1..Len(W) |-> RAdd[Combine[c, W, i - 1][k], RMul[c[i], W[i][k]]]]

\* w_new -= np.dot(np.dot(w_new, W[:i].T), W[:i])   (rows 1..i of the model)
Deflate[w_new \in Vector, W \in Matrix, i \in Nat] ==
    VSub[w_new, Combine[[k \in 1..i |-> Dot[w_new, W[k]]], W, i]]


---------------------------------------------------------------------------
(* The inputs the caller and the random source can supply *)

RECURSIVE AndParity(_, _)
\* parity of the number of bits a and b share
AndParity(a, b) ==
    IF a = 0 \/ b = 0 THEN 0
    ELSE ((a % 2) * (b % 2) + AndParity(a \div 2, b \div 2)) % 2

RECURSIVE Samples(_, _)
\* the number M of samples: the least power of two above n
Samples(n, m) == IF m > n THEN m ELSE Samples(n, 2 * m)

\* n uncorrelated zero-mean unit-variance signals of M samples (Walsh
\* functions), scaled by a and shifted by b
Mixture(n, a, b) ==
    [k \in 1..n |->
        [m \in 1..Samples(n, 2) |->
            <<b + a * (IF AndParity(k, m - 1) = 0 THEN 1 ELSE -1), 1>>]]

Mixtures(n) == {Mixture(n, 1, 0), Mixture(n, 2, 1)}

\* every row has mean 0 and variance 1 (the rows are uncorrelated)
IsWhite(X) == \A k \in 1..Len(X) : RMean[X[k]] = Zero /\ Variance[X[k]] = One

Tolerances == {Zero, <<1, 8>>}

DistNames == MetricNames \cup {"euclid"}

ContrastOptions == {"unset", "logcosh", "exp", "kurtosis"}

\* np.random.rand(n), entries in [0, 1): half a unit vector, and a vector of
\* norm 1 (1/4 for n = 1)
RandVecs(n) ==
    { [k \in 1..n |-> IF k = 1 THEN <<1, 2>> ELSE Zero],
      [k \in 1..n |-> IF n = 1 THEN <<1, 4>>
                      ELSE IF n = 2 THEN <<2 + k, 5>>
                      ELSE IF k = 1 THEN <<1, 3>>
                      ELSE IF k <= 3 THEN <<2, 3>> ELSE Zero] }

\* the values g(u) and g'(u) the contrast strategy returns, in units: g is
\* 1 on the first k samples and 0 on the rest, g' the same on all samples
GVals == {Zero, One}
ContrastVals(M) == {[m \in 1..M |-> IF m <= k THEN One ELSE Zero] : k \in {0, 1, 2}}
DerivativeVals(M) == {[m \in 1..M |-> c] : c \in GVals}

\* the calls made: data that is not white is whitened
Args ==
    { a \in [X : UNION {Mixtures(n) : n \in 1..MaxN}, max_iter : 1..MaxIter,
             tolerance : Tolerances, do_whitening : BOOLEAN, verbose : BOOLEAN,
             dist_fn : DistNames, contrast_function : ContrastOptions] :
        a.do_whitening \/ IsWhite(a.X) }

NoDraw == [w0 |-> <<>>, g |-> <<>>, g_der |-> <<>>]

---------------------------------------------------------------------------
(* decomposition/fastICA.py: ica.  A frame holds the locals of one call,   *)
(* pc the line it is at, out what it has printed, and the record of what   *)
(* has been executed: contrast_used (the strategies evaluated), updates    *)
(* (calls of calculate_new_w per component), w_start (w when the current   *)
(* iteration began), w_upd (what calculate_new_w returned in it) and conv  *)
(* (whether each component's loop ended by the break).                     *)

NoFrame ==
    [pc |-> "idle", err |-> "", X |-> <<>>, max_iter |-> 0, tolerance |-> Zero,
     do_whitening |-> FALSE, verbose |-> FALSE, dist_fn |-> "",
     contrast_function |-> "unset", components_nr |-> 0, W |-> <<>>,
     i |-> -1, w |-> <<>>, step_count |-> 0, j |-> -1, w_new |-> <<>>,
     distance_fn |-> "", dist |-> NaN, S |-> <<>>, out |-> <<>>,
     contrast_used |-> {}, updates |-> <<>>, w_start |-> <<>>, w_upd |-> <<>>,
     conv |-> <<>>, broke |-> FALSE]

Say(s, line) == IF s.verbose THEN Append(s.out, line) ELSE s.out

\* def ica(X, max_iter, tolerance, do_whitening, verbose, dist_fn): a keyword
\* the signature does not have is a TypeError
Enter(a) ==
    LET f == [NoFrame EXCEPT !.X = a.X, !.max_iter = a.max_iter,
                             !.tolerance = a.tolerance,
                             !.do_whitening = a.do_whitening,
                             !.verbose = a.verbose, !.dist_fn = a.dist_fn,
                             !.contrast_function = a.contrast_function]
    IN  IF a.contrast_function # "unset"
        THEN [f EXCEPT !.pc = "error", !.err = "TypeError"]
        ELSE [f EXCEPT !.pc = "l48"]

\* if do_whitening: X = whitening(X); if verbose: print(...)
Line48(s) ==
    IF s.do_whitening
    THEN [s EXCEPT !.X = whitening[s.X],
                   !.out = Say(s, [msg |-> "whitening", a |-> 0, b |-> 0]),
                   !.pc = "l52"]
    ELSE [s EXCEPT !.pc = "l52"]

\* components_nr = X.shape[0]; print; W = np.zeros((components_nr, components_nr))
Line52(s) ==
    LET n == Len(s.X)
    IN  [s EXCEPT !.components_nr = n,
                  !.out = Say(s, [msg |-> "look for", a |-> n, b |-> 0]),
                  !.W = [k \in 1..n |-> ZeroVec(n)],
                  !.pc = "l57"]

\* for i in range(components_nr)
Line57(s) ==
    IF s.i + 1 < s.components_nr
    THEN [s EXCEPT !.i = s.i + 1, !.pc = "l59"]
    ELSE [s EXCEPT !.pc = "l80"]

\* w = np.random.rand(components_nr); step_count = 0
Line59(s, d) ==
    [s EXCEPT !.w = d.w0, !.step_count = 0, !.j = -1, !.broke = FALSE,
              !.updates = Append(s.updates, 0), !.pc = "l61"]

\* the loop head running one iteration too many
Line61_OneMore(s) ==
    IF s.j + 1 <= s.max_iter
    THEN [s EXCEPT !.j = s.j + 1, !.pc = "l62"]
    ELSE [s EXCEPT !.pc = "l76"]

\* for j in range(max_iter)
Line61(s) ==
    IF s.j + 1 < s.max_iter
    THEN [s EXCEPT !.j = s.j + 1, !.pc = "l62"]
    ELSE [s EXCEPT !.pc = "l76"]

\* w_new = calculate_new_w(w, X)
Line62(s, d) ==
    [s EXCEPT !.w_new = calculate_new_w(s.w, s.X, d.g, d.g_der),
              !.w_upd = calculate_new_w(s.w, s.X, d.g, d.g_der),
              !.contrast_used = s.contrast_used \cup {ContrastName},
              !.updates[s.i + 1] = s.updates[s.i + 1] + 1,
              !.w_start = s.w,
              !.pc = "l63"]

\* if i >= 1: w_new -= np.dot(np.dot(w_new, W[:i].T), W[:i])
Line63(s) ==
    IF s.i >= 1
    THEN [s EXCEPT !.w_new = Deflate[s.w_new, s.W, s.i], !.pc = "l68"]
    ELSE [s EXCEPT !.pc = "l68"]

\* distance_fn = get_similarity_metric_fn(dist_fn)
Line68(s) ==
    IF s.dist_fn \in MetricNames
    THEN [s EXCEPT !.distance_fn = s.dist_fn, !.pc = "l69"]
    ELSE [s EXCEPT !.pc = "error", !.err = "UnsupportedMetricError"]

\* dist = distance_fn(w, w_new)
Line69(s) ==
    [s EXCEPT !.dist = Metric(s.distance_fn, s.w, s.w_new), !.pc = "l70"]

\* w = w_new
Line70(s) == [s EXCEPT !.w = s.w_new, !.pc = "l73"]

\* the test without the break
Line73_NoBreak(s) ==
    IF DistLess(s.dist, s.tolerance)
    THEN [s EXCEPT !.step_count = s.j, !.pc = "l61"]
    ELSE [s EXCEPT !.pc = "l61"]

\* if dist < tolerance: step_count = j; break
Line73(s) ==
    IF DistLess(s.dist, s.tolerance)
    THEN [s EXCEPT !.step_count = s.j, !.broke = TRUE, !.pc = "l76"]
    ELSE [s EXCEPT !.pc = "l61"]

\* if verbose: print("--> w", i, "converges in", step_count, "steps")
Line76(s) ==
    [s EXCEPT !.out = Say(s, [msg |-> "converges", a |-> s.i, b |-> s.step_count]),
              !.conv = Append(s.conv, s.broke),
              !.pc = "l78"]

\* the store indented under "if verbose:"
Line78_UnderVerbose(s) ==
    IF s.verbose
    THEN [s EXCEPT !.W[s.i + 1] = s.w, !.pc = "l57"]
    ELSE [s EXCEPT !.pc = "l57"]

\* the store written as W[i:, :] = w
Line78_Slice(s) ==
    [s EXCEPT !.W = [k \in 1..Len(s.W) |-> IF k >= s.i + 1 THEN s.w ELSE s.W[k]],
              !.pc = "l57"]

\* W[i, :] = w
Line78(s) == [s EXCEPT !.W[s.i + 1] = s.w, !.pc = "l57"]

\* S = np.dot(W, X); return S
Line80(s) == [s EXCEPT !.S = MatMul[s.W, s.X], !.pc = "done"]

\* the statement a frame is at, executed on the draws d
Exec(s, d) ==
    CASE s.pc = "l48" -> Line48(s)
      [] s.pc = "l52" -> Line52(s)
      [] s.pc = "l57" -> Line57(s)
      [] s.pc = "l59" -> Line59(s, d)
      [] s.pc = "l61" -> Line61(s)
      [] s.pc = "l62" -> Line62(s, d)
      [] s.pc = "l63" -> Line63(s)
      [] s.pc = "l68" -> Line68(s)
      [] s.pc = "l69" -> Line69(s)
      [] s.pc = "l70" -> Line70(s)
      [] s.pc = "l73" -> Line73(s)
      [] s.pc = "l76" -> Line76(s)
      [] s.pc = "l78" -> Line78(s)
      [] s.pc = "l80" -> Line80(s)
      [] OTHER -> s

---------------------------------------------------------------------------
(* The engine: run is a call of ica, twin the same call with verbose       *)
(* negated, given the same inputs and the same random draws.               *)

MetricIdle == UNCHANGED <<mx, my, md, mdprev, mop>>

Call ==
    /\ run.pc = "idle"
    /\ \E a \in Args :
        /\ run' = Enter(a)
        /\ twin' = Enter([a EXCEPT !.verbose = ~a.verbose])
    /\ MetricIdle

Whiten ==
    /\ run.pc = "l48"
    /\ run' = Line48(run)
    /\ twin' = Exec(twin, NoDraw)
    /\ MetricIdle

Allocate ==
    /\ run.pc = "l52"
    /\ run' = Line52(run)
    /\ twin' = Exec(twin, NoDraw)
    /\ MetricIdle

NextComponent ==
    /\ run.pc = "l57"
    /\ run' = Line57(run)
    /\ twin' = Exec(twin, NoDraw)
    /\ MetricIdle

InitWeights ==
    /\ run.pc = "l59"
    /\ \E w0 \in RandVecs(run.components_nr) :
        LET d == [NoDraw EXCEPT !.w0 = w0]
        IN  run' = Line59(run, d) /\ twin' = Exec(twin, d)
    /\ MetricIdle

NextIteration ==
    /\ run.pc = "l61"
    /\ run' = Line61(run)
    /\ twin' = Exec(twin, NoDraw)
    /\ MetricIdle

Update ==
    /\ run.pc = "l62"
    /\ \E g \in ContrastVals(Len(run.X[1])), g_der \in DerivativeVals(Len(run.X[1])) :
        LET d == [NoDraw EXCEPT !.g = g, !.g_der = g_der]
        IN  /\ CanNormalize[FixedPoint[run.w, run.X, g, g_der]]
            /\ run' = Line62(run, d)
            /\ twin' = Exec(twin, d)
    /\ MetricIdle

Decorrelate ==
    /\ run.pc = "l63"
    /\ run' = Line63(run)
    /\ twin' = Exec(twin, NoDraw)
    /\ MetricIdle

GetMetric ==
    /\ run.pc = "l68"
    /\ run' = Line68(run)
    /\ twin' = Exec(twin, NoDraw)
    /\ MetricIdle

Measure ==
    /\ run.pc = "l69"
    /\ run' = Line69(run)
    /\ twin' = Exec(twin, NoDraw)
    /\ MetricIdle

Assign ==
    /\ run.pc = "l70"
    /\ run' = Line70(run)
    /\ twin' = Exec(twin, NoDraw)
    /\ MetricIdle

Test ==
    /\ run.pc = "l73"
    /\ run' = Line73(run)
    /\ twin' = Exec(twin, NoDraw)
    /\ MetricIdle

Report ==
    /\ run.pc = "l76"
    /\ run' = Line76(run)
    /\ twin' = Exec(twin, NoDraw)
    /\ MetricIdle

Store ==
    /\ run.pc = "l78"
    /\ run' = Line78(run)
    /\ twin' = Exec(twin, NoDraw)
    /\ MetricIdle

Return ==
    /\ run.pc = "l80"
    /\ run' = Line80(run)
    /\ twin' = Exec(twin, NoDraw)
    /\ MetricIdle

\* the caller is done with the result or the error of the call
Discard ==
    /\ run.pc \in {"done", "error"}
    /\ run' = NoFrame
    /\ twin' = NoFrame
    /\ MetricIdle

Engine ==
    \/ Whiten \/ Allocate \/ NextComponent \/ InitWeights \/ NextIteration
    \/ Update \/ Decorrelate \/ GetMetric \/ Measure \/ Assign \/ Test
    \/ Report \/ Store \/ Return

Init ==
    /\ run = NoFrame
    /\ twin = NoFrame
    /\ mx = <<>> /\ my = <<>> /\ md = Zero /\ mdprev = Zero /\ mop = "none"

Next == Call \/ Engine \/ Discard

Spec == Init /\ [][Next]_vars

\* a call, once made, runs to its end: the engine is sequential code
FairSpec == Spec /\ WF_vars(Engine)


---------------------------------------------------------------------------
(* compute_distance on its own: the inputs are drawn at the start, and     *)
(* each step changes them and applies the function again.                  *)

MetricEntries == {<<-1, 1>>, <<-1, 2>>, Zero, <<1, 2>>, One}

MetricVecs(n) == [1..n -> MetricEntries]

EngineIdle == UNCHANGED <<run, twin>>

Applied(x, y, op) ==
    /\ mx' = x
    /\ my' = y
    /\ md' = compute_distance(x, y)
    /\ mdprev' = md
    /\ mop' = op

\* the sign of one element of x, or of y, is flipped
FlipOne ==
    /\ \E k \in 1..Len(mx) :
        \/ Applied([mx EXCEPT ![k] = RNeg[mx[k]]], my, "flip")
        \/ Applied(mx, [my EXCEPT ![k] = RNeg[my[k]]], "flip")
    /\ EngineIdle

\* the sign of all of x, or of all of y, is flipped
FlipAll ==
    /\ \/ Applied(VNeg[mx], my, "negate")
       \/ Applied(mx, VNeg[my], "negate")
    /\ EngineIdle

\* the arguments are exchanged
Swap ==
    /\ Applied(my, mx, "swap")
    /\ EngineIdle

\* y becomes -x
Mirror ==
    /\ Applied(mx, VNeg[mx], "mirror")
    /\ EngineIdle

MetricInit ==
    /\ run = NoFrame
    /\ twin = NoFrame
    /\ \E n \in 1..MaxLen : mx \in MetricVecs(n) /\ my \in MetricVecs(n)
    /\ md = compute_distance(mx, my)
    /\ mdprev = md
    /\ mop = "compute"

MetricNext == FlipOne \/ FlipAll \/ Swap \/ Mirror

MetricSpec == MetricInit /\ [][MetricNext]_vars


---------------------------------------------------------------------------
(* Properties *)

\* the call names a known metric and passes no keyword ica does not have
Valid(s) == s.dist_fn \in MetricNames /\ s.contrast_function = "unset"

\* components whose loop has ended are counted by conv
Solved(s) == Len(s.conv)

C1_Bounded ==
    Valid(run) =>
        /\ run.pc # "error"
        /\ \A k \in 1..Len(run.updates) : run.updates[k] <= run.max_iter
        /\ run.pc = "done" =>
            /\ Solved(run) = run.components_nr
            /\ Len(run.updates) = run.components_nr
            /\ \A k \in 1..run.components_nr : run.updates[k] >= 1
            /\ (run.max_iter = 1 /\ run.tolerance = Zero) =>
                    \A k \in 1..run.components_nr :
                        run.updates[k] = 1 /\ ~run.conv[k]
            /\ run.tolerance = Zero =>
                    \A k \in 1..run.components_nr : run.updates[k] = run.max_iter
            /\ run.S = MatMul[run.W, run.X]
            /\ Len(run.S) = run.components_nr

\* C1: for every N >= 1, max_iter >= 1 and tolerance >= 0, a call of ica with
\* a known metric raises no error, makes at most max_iter updates per
\* component, ends having solved exactly N components and returns S; with
\* tolerance 0 no component converges, and with max_iter = 1 as well each
\* component gets exactly one update.
C1_Terminates ==
    /\ []C1_Bounded
    /\ (run.pc = "l48" /\ Valid(run)) ~> (run.pc = "done")

\* a single mixture, max_iter = 1, tolerance = 0: the call has returned
C1_Witness ==
    /\ run.pc = "done"
    /\ run.components_nr = 1
    /\ run.max_iter = 1
    /\ run.tolerance = Zero
    /\ run.updates = <<1>>
    /\ run.conv = <<FALSE>>

\* C2: when the metric name is unknown, the error is raised before any
\* fixed-point update (calculate_new_w) has been executed.
C2_FailsFast ==
    (run.pc = "error" /\ run.err = "UnsupportedMetricError") =>
        /\ \A k \in 1..Len(run.updates) : run.updates[k] = 0
        /\ run.contrast_used = {}

\* the contrast function the caller selects: exp when the option is left out
Selected(s) == IF s.contrast_function = "unset" THEN "exp" ELSE s.contrast_function

\* C3: a call that selects a contrast function by name (or leaves the default,
\* exp) has, when it ends, evaluated that strategy and no other in its
\* fixed-point updates.
C3_SelectedContrast ==
    (run.pc \in {"done", "error"} /\ run.dist_fn \in MetricNames) =>
        run.contrast_used = {Selected(run)}

\* C4: the w that is compared for convergence and carried to the next
\* iteration has unit Euclidean norm (stated for the non-zero w, on which
\* normalisation is defined), and so has every row stored in W.
C4_UnitNorm ==
    /\ (run.pc = "l73" /\ ~IsZeroVec[run.w]) => NormSq[run.w] = One
    /\ run.pc = "l57" =>
            \A k \in 1..(run.i + 1) :
                ~IsZeroVec[run.W[k]] => NormSq[run.W[k]] = One

\* C5: in the final W, row i has dot product 0 with each of the rows before it.
C5_RowsOrthogonal ==
    run.pc = "done" =>
        \A a \in 1..run.components_nr : \A b \in 1..(a - 1) :
            Dot[run.W[a], run.W[b]] = Zero

RECURSIVE SumAbsDiff(_, _, _)
\* the sum over positions 1..k of | |x_k| - |y_k| |
SumAbsDiff(x, y, k) ==
    IF k = 0 THEN Zero
    ELSE RAdd[SumAbsDiff(x, y, k - 1), RAbs[RSub[RAbs[x[k]], RAbs[y[k]]]]]

\* C6: compute_distance(x, y) is non-negative, is the sum over positions of
\* | |x_k| - |y_k| |, is unchanged when the arguments are exchanged or when
\* the sign of all of x, all of y or any one element is flipped, and
\* compute_distance(x, -x) = 0.
C6_Manhattan ==
    /\ ~RLess[md, Zero]
    /\ md = SumAbsDiff(mx, my, Len(mx))
    /\ mop \in {"flip", "negate", "swap"} => md = mdprev
    /\ mop = "mirror" => md = Zero

\* a sign flip of one element of vectors that are a positive distance apart
\* and differ in sign somewhere
C6_Witness ==
    /\ mop = "flip"
    /\ RLess[Zero, md]
    /\ \E k \in 1..Len(mx) : RLess[mx[k], Zero] /\ RLess[Zero, my[k]]

\* a frame without what verbose controls: the flag and the output
Behaviour(s) == [s EXCEPT !.verbose = FALSE, !.out = <<>>]

\* C7: two calls on the same X, options and random draws that differ only in
\* verbose are at the same line with the same locals, the same W, S and error
\* after every step; the call with verbose off prints nothing.
C7_VerboseNoEffect ==
    /\ Behaviour(run) = Behaviour(twin)
    /\ run.verbose => twin.out = <<>>
    /\ twin.verbose => run.out = <<>>

\* both calls have returned, one of them having printed its progress
C7_Witness ==
    /\ run.pc = "done"
    /\ twin.pc = "done"
    /\ run.components_nr >= 2
    /\ run.out # twin.out
    /\ run.S = twin.S

\* the lines printed for the components whose loop has ended
Reports(s) == SelectSeq(s.out, LAMBDA line : line.msg = "converges")

\* C8: what is reported for a component that did not converge differs from
\* what is reported for a component that converged.
C8_Distinguishable ==
    run.verbose =>
        \A a \in 1..Len(run.conv) : \A b \in 1..Len(run.conv) :
            (run.conv[a] /\ ~run.conv[b]) => Reports(run)[a].b # Reports(run)[b].b

\* C9: dist is measured between the w held when the iteration began and the
\* w_new of that iteration (deflated when i >= 1), and w is w_new when
\* dist < tolerance is tested; a further iteration begins only when the test
\* failed; the loop ends by the break at the first iteration with
\* dist < tolerance, or after max_iter iterations none of which met it; the
\* row stored in W is the w_new of the last iteration executed.
C9_EarlyStop ==
    /\ run.pc = "l73" =>
        /\ run.w = run.w_new
        /\ run.w_new = (IF run.i >= 1 THEN Deflate[run.w_upd, run.W, run.i]
                        ELSE run.w_upd)
        /\ run.dist = Metric(run.distance_fn, run.w_start, run.w_new)
    /\ (run.pc = "l62" /\ run.j >= 1) => ~DistLess(run.dist, run.tolerance)
    /\ (run.pc = "l76" /\ run.broke) =>
        /\ DistLess(run.dist, run.tolerance)
        /\ run.updates[run.i + 1] = run.j + 1
        /\ run.step_count = run.j
        /\ run.w = run.w_new
    /\ (run.pc = "l76" /\ ~run.broke) =>
        /\ ~DistLess(run.dist, run.tolerance)
        /\ run.updates[run.i + 1] = run.max_iter
        /\ run.w = run.w_new
    /\ (run.pc = "l57" /\ run.i >= 0) => run.W[run.i + 1] = run.w_new

\* a deflated component stopped by the break before max_iter was used up,
\* and its row stored
C9_Witness ==
    /\ run.pc = "l57"
    /\ run.i >= 1
    /\ run.conv[run.i + 1]
    /\ run.updates[run.i + 1] < run.max_iter
    /\ run.W[run.i + 1] # run.w_upd

\* rows i+1 .. N-1 of W (and row i until it is stored) are zero
RowsAheadZero(s) ==
    /\ s.pc \in {"l59", "l61", "l62", "l63", "l68", "l69", "l70", "l73", "l76", "l78"} =>
            \A k \in (s.i + 1)..s.components_nr : s.W[k] = ZeroVec(s.components_nr)
    /\ s.pc = "l57" =>
            \A k \in (s.i + 2)..s.components_nr : s.W[k] = ZeroVec(s.components_nr)

\* within a call a row of W changes only by the store of line 78, which
\* writes row i, until then zero, with w
RowsWrittenOnce ==
    (run.pc \notin {"idle", "l52"} /\ run'.pc # "idle") =>
        \A k \in 1..Len(run.W) :
            run'.W[k] # run.W[k] =>
                /\ run.pc = "l78"
                /\ k = run.i + 1
                /\ run.W[k] = ZeroVec(run.components_nr)
                /\ run'.W[k] = run.w

\* C10: W is an N x N zero matrix when the loop over the components begins,
\* in every call; while component i is iterated rows i .. N-1 are zero and
\* the deflation uses rows 0 .. i-1; a row changes only when component i's
\* loop has ended and row i is stored, once.
C10_Sequential ==
    /\ [](RowsAheadZero(run) /\ (run.pc = "l52" => run.W = <<>>))
    /\ [][RowsWrittenOnce]_vars

\* the third component begins with two rows stored and the third still zero
C10_Witness ==
    /\ run.pc = "l59"
    /\ run.i = 2
    /\ ~IsZeroVec[run.W[1]]
    /\ ~IsZeroVec[run.W[2]]
    /\ IsZeroVec[run.W[3]]

=============================================================================
